---- MODULE Spec2Model ----
(***************************************************************************)
(* brick-tq-shacl: the inference loop, the validation driver and the       *)
(* report interpreter of brick_tq_shacl/__init__.py, with the external     *)
(* TopQuadrant engine as a nondeterministic environment.                   *)
(***************************************************************************)
EXTENDS Integers, Sequences, FiniteSets, TLC

(* ------------------------------ bounds --------------------------------- *)
\* largest value of min_iterations / max_iterations a caller passes
MaxIter == 3
\* largest number of result nodes in a report graph (report interpreter)
MaxResults == 2
\* largest number of characters of an engine output given to clean_stdout
MaxText == 4

(* ------------------------------ RDF terms ------------------------------ *)
\* a term is an IRI, a blank node, or an rdflib skolem IRI (genid) of a
\* blank node; n numbers the blank nodes the parser creates per parse
IRI(x) == [k |-> "iri", id |-> x, n |-> 0]
BNode(x, i) == [k |-> "bnode", id |-> x, n |-> i]
Genid(x, i) == [k |-> "genid", id |-> x, n |-> i]

OWL_imports == IRI("owl:imports")

Triple(s, p, o) == <<s, p, o>>

\* rdflib BNode.skolemize / Graph.skolemize: every blank node becomes its
\* skolem IRI, in a NEW graph
SkolemizeTerm(t) == IF t.k = "bnode" THEN Genid(t.id, t.n) ELSE t
skolemize(g) == {Triple(SkolemizeTerm(t[1]), t[2], SkolemizeTerm(t[3])) : t \in g}

\* rdflib Graph.de_skolemize: every skolem IRI becomes a blank node, in a
\* NEW graph
DeSkolemizeTerm(t) == IF t.k = "genid" THEN BNode(t.id, t.n) ELSE t
de_skolemize(g) == {Triple(DeSkolemizeTerm(t[1]), t[2], DeSkolemizeTerm(t[3])) : t \in g}

\* graph.triples((None, OWL.imports, None))
ImportsOf(g) == {t \in g : t[2] = OWL_imports}
\* graph.remove((None, OWL.imports, None))
RemoveImports(g) == {t \in g : t[2] # OWL_imports}

\* Python's None where a graph is expected (no triple set holds its element)
NoGraph == {<<"None">>}
\* rdflib Graph.__bool__ is len(graph) > 0; None is falsy
Truthy(g) == g # NoGraph /\ g # {}

BNodesOf(g) == {t[1] : t \in {x \in g : x[1].k = "bnode"}}
                 \cup {t[3] : t \in {x \in g : x[3].k = "bnode"}}
RenameTerm(f, t) == IF t.k = "bnode" THEN f[t] ELSE t
Rename(f, g) == {Triple(RenameTerm(f, t[1]), t[2], RenameTerm(f, t[3])) : t \in g}
\* Graph.isomorphic: equal up to a bijective renaming of blank nodes
isomorphic(g, h) ==
    /\ Cardinality(g) = Cardinality(h)
    /\ Cardinality(BNodesOf(g)) = Cardinality(BNodesOf(h))
    /\ \E f \in [BNodesOf(g) -> BNodesOf(h)] : Rename(f, g) = h

(* --------------------------- input universes --------------------------- *)
\* triples a caller's data graph may hold: an import declared by an IRI
\* ontology node, one declared by a blank ontology node, a blank-node fact,
\* and a fact about a node that is named by a skolem IRI already
DataTriples ==
    { Triple(IRI("urn:example"), OWL_imports, IRI("urn:brick")),
      Triple(BNode("b", 1), OWL_imports, IRI("urn:brick")),
      Triple(BNode("b", 1), IRI("brick:hasPoint"), IRI("ex:sensor")),
      Triple(Genid("s", 1), IRI("brick:hasPoint"), IRI("ex:sensor")) }
\* triples an ontology / shape graph may hold
OntologyTriples ==
    { Triple(IRI("urn:brick"), OWL_imports, IRI("urn:qudt")),
      Triple(IRI("brick:Rule"), IRI("rdf:type"), IRI("sh:NodeShape")) }
\* what the engine may print: an IRI-only fact, a fact about a blank node
\* (a fresh blank node in every parse), and an import declaration
EngineTriples(pass) ==
    { Triple(IRI("ex:sensor"), IRI("rdf:type"), IRI("brick:Air_Quality_Sensor")),
      Triple(BNode("e", pass), IRI("rdf:type"), IRI("brick:Tag")),
      Triple(IRI("urn:example"), OWL_imports, IRI("urn:inferred")) }

(* ---------------------------- report graphs ---------------------------- *)
\* a result node: whether the report node points at it with sh:result, its
\* sh:resultSeverity and its sh:focusNode ("none": the property is absent)
ResultNodes ==
    [linked : BOOLEAN,
     severity : {"sh:Violation", "sh:Warning", "none"},
     focusNode : {"ex:air_temp_sensor", "none"},
     message : {"none"}, path : {"none"}, value : {"none"},
     sourceConstraintComponent : {"none"}, sourceShape : {"none"}]
\* a result node the report node points at, with each of the seven
\* properties the report text shows present or absent; the message and the
\* value are literals, among them the empty string and the number 0
DetailedResultNodes ==
    [linked : {TRUE},
     severity : {"sh:Violation", "none"},
     focusNode : {"ex:air_temp_sensor", "none"},
     message : {"Value out of range", "", "none"},
     path : {"brick:value", "none"},
     value : {"21", "0", "none"},
     sourceConstraintComponent : {"sh:MinInclusiveConstraintComponent", "none"},
     sourceShape : {"ex:TemperatureShape", "none"}]
ResultSeqs(n) == UNION {[1..k -> ResultNodes] : k \in 0..n}
\* a parsed report graph: whether a node is typed sh:ValidationReport, the
\* sh:conforms value of that node, whether some other node has sh:conforms
\* true, and the result nodes
ReportGraphs(n) ==
    {r \in [hasReport : BOOLEAN,
            conforms : {"true", "false", "none"},
            conformsElsewhere : BOOLEAN,
            results : ResultSeqs(n)] :
        ~r.hasReport =>
            /\ r.conforms = "none"
            /\ \A i \in 1..Len(r.results) : ~r.results[i].linked}
\* a report graph with a report node whose results are detailed
DetailedReportGraphs(n) ==
    [hasReport : {TRUE},
     conforms : {"true", "false", "none"},
     conformsElsewhere : {FALSE},
     results : UNION {[1..k -> DetailedResultNodes] : k \in 0..n}]
\* the report graph with no triple
EmptyReport ==
    [hasReport |-> FALSE, conforms |-> "none", conformsElsewhere |-> FALSE,
     results |-> <<>>]
\* the reports of the two validation scenarios of the integration tests
ViolationReport ==
    [hasReport |-> TRUE, conforms |-> "false", conformsElsewhere |-> FALSE,
     results |-> <<[linked |-> TRUE, severity |-> "sh:Violation",
                    focusNode |-> "ex:air_temp_sensor", message |-> "none",
                    path |-> "none", value |-> "none",
                    sourceConstraintComponent |-> "none",
                    sourceShape |-> "none"]>>]
ConformingReport ==
    [hasReport |-> TRUE, conforms |-> "true", conformsElsewhere |-> FALSE,
     results |-> <<>>]

(* ------------------------------- Python -------------------------------- *)
\* a Python value that is a bool or an int
PyBool(b) == [py |-> "bool", n |-> IF b THEN 1 ELSE 0]
PyInt(i) == [py |-> "int", n |-> i]
PyTruth(v) == v.n # 0
\* Python's `not a or b`: True when a is falsy, else b itself
NotAOrB(a, b) == IF ~PyTruth(a) THEN PyBool(TRUE) ELSE b

\* the cleaned stdout of a tqvalidate run: text that report_g.parse turns
\* into the report graph, or text that it rejects
Parseable(r) == [parses |-> TRUE, graph |-> r]
Unparseable == [parses |-> FALSE, graph |-> EmptyReport]
\* validate has not returned
NoResult == <<>>

\* a text is a sequence of characters: a letter, the colon, and the line
\* breaks "\n" (LF) and "\r" (CR)
LF == "LF"
CR == "CR"
Chars == {"a", ":", LF, CR}
Texts(n) == UNION {[1..k -> Chars] : k \in 0..n}

\* str.splitlines: the lines of a text, without their line breaks; "\r\n" is
\* one break, and a break at the end of the text starts no further line
RECURSIVE SplitFrom(_, _, _)
SplitFrom(t, i, cur) ==
    IF i > Len(t)
       THEN IF cur = <<>> THEN <<>> ELSE <<cur>>
       ELSE IF t[i] = CR /\ i < Len(t) /\ t[i + 1] = LF
               THEN <<cur>> \o SplitFrom(t, i + 2, <<>>)
               ELSE IF t[i] = CR \/ t[i] = LF
                       THEN <<cur>> \o SplitFrom(t, i + 1, <<>>)
                       ELSE SplitFrom(t, i + 1, Append(cur, t[i]))
splitlines(t) == SplitFrom(t, 1, <<>>)

\* "::" in line
MarkerAtStartOnly(line) ==
    Len(line) >= 2 /\ line[1] = ":" /\ line[2] = ":"
HasMarker(line) ==
    \E k \in 1..(Len(line) - 1) : line[k] = ":" /\ line[k + 1] = ":"

\* "\n".join(lines)
RECURSIVE Join(_)
Join(lines) ==
    IF lines = <<>> THEN <<>>
    ELSE IF Len(lines) = 1 THEN Head(lines)
    ELSE Head(lines) \o <<LF>> \o Join(Tail(lines))

\* clean_stdout: the lines without the marker, in order, joined by "\n"
clean_stdout(t) ==
    Join(SelectSeq(splitlines(t), LAMBDA line : ~HasMarker(line)))

\* stdout and stderr of an engine run whose cleaned stdout is not Turtle: a
\* diagnostic line with the marker before the text, or a text on stderr
RawFailures ==
    { [stdout |-> <<"a", ":", ":", "a", LF, "a">>, stderr |-> <<>>],
      [stdout |-> <<"a">>, stderr |-> <<"a", "a", ":">>],
      [stdout |-> <<"a">>, stderr |-> <<>>] }
NoOutput == [stdout |-> <<>>, stderr |-> <<>>]
\* the exception Graph().parse(data=contents) raises: rdflib's syntax error
\* quotes the text it was given
BadSyntax(contents) == [exc |-> "BadSyntax", text |-> contents]
NoError == [exc |-> "none", text |-> <<>>]

VARIABLES
    call,                    \* "infer" or "validate": the API function called
    pc,                      \* position of the call
    arg_data,                \* triple set of the caller's data graph at the call
    arg_ont,                 \* triple set of the caller's ontology/shape graph, or NoGraph
    caller_data,             \* the caller's data graph object
    caller_ont,              \* the caller's ontology/shape graph object
    min_iterations,
    max_iterations,
    early_isomorphic_exit,
    imports,
    ontology_imports,
    ontologies,              \* infer's local `ontologies`
    data_graph,              \* infer's local `data_graph` (the skolemized copy)
    data_graph_size,
    data_graph_size_changed,
    current_iteration,
    previous_inferred_graph,
    loop_exit,               \* how the while loop ended: "condition" or "break"
    engine_calls,            \* invocations of tqinfer in this call
    validate_calls,          \* invocations of tqvalidate in this call
    engine_input,            \* the graph last serialized for the engine
    returned,                \* the graph infer returned (NoGraph: none yet)
    stdout,                  \* cleaned stdout of the last tqvalidate run
    result,                  \* the tuple validate returned
    error,                   \* the exception that left the call
    inferred_graph,          \* the graph parsed from the last pass's output
    raw_output,              \* stdout and stderr of the engine run that failed
    error_text,              \* what the exception that left the call carries
    deterministic,           \* the engine is a function of its input graph
    engine_memo,             \* the answers a deterministic engine has given
    first_run,               \* the outcome of the call before a repeated one
    temp_dirs,               \* the scratch directories that exist
    cleaned                  \* what clean_stdout returned, call after call

vars == <<call, pc, arg_data, arg_ont, caller_data, caller_ont, min_iterations,
          max_iterations, early_isomorphic_exit, imports, ontology_imports,
          ontologies, data_graph, data_graph_size, data_graph_size_changed,
          current_iteration, previous_inferred_graph, loop_exit, engine_calls,
          validate_calls, engine_input, returned, stdout, result, error,
          inferred_graph, raw_output, error_text, deterministic, engine_memo,
          first_run, temp_dirs, cleaned>>

inputs == <<call, arg_data, arg_ont, min_iterations, max_iterations,
            early_isomorphic_exit>>
loop_vars == <<data_graph, data_graph_size, data_graph_size_changed,
               current_iteration, previous_inferred_graph>>
validate_vars == <<validate_calls, stdout, result>>
failure_vars == <<raw_output, error_text>>
rerun_vars == <<deterministic, first_run>>

(* -------------------------------- infer -------------------------------- *)
Init ==
    /\ call \in {"infer", "validate"}
    /\ pc = "start"
    /\ arg_data \in SUBSET DataTriples
    /\ arg_ont \in {NoGraph} \cup SUBSET OntologyTriples
    /\ caller_data = arg_data
    /\ caller_ont = arg_ont
    /\ min_iterations \in 0..MaxIter
    /\ max_iterations \in 0..MaxIter
    /\ early_isomorphic_exit \in BOOLEAN
    /\ imports = {}
    /\ ontology_imports = {}
    /\ ontologies = NoGraph
    /\ data_graph = {}
    /\ data_graph_size = 0
    /\ data_graph_size_changed = FALSE
    /\ current_iteration = 0
    /\ previous_inferred_graph = NoGraph
    /\ loop_exit = "none"
    /\ engine_calls = 0
    /\ validate_calls = 0
    /\ engine_input = NoGraph
    /\ returned = NoGraph
    /\ stdout = Unparseable
    /\ result = NoResult
    /\ error = "none"
    /\ inferred_graph = NoGraph
    /\ raw_output = NoOutput
    /\ error_text = NoError
    /\ deterministic = FALSE
    /\ engine_memo = {}
    /\ first_run = <<>>
    /\ temp_dirs = {}
    /\ cleaned = <<>>

\* with tempfile.TemporaryDirectory() as temp_dir: the directory is made on
\* entry and removed when the block is left, by its end, a break or an
\* exception
EnterTemporaryDirectory(dirs, d) == dirs \cup {d}
ExitTemporaryDirectoryKept(dirs, d) == dirs
ExitTemporaryDirectory(dirs, d) == dirs \ {d}

\* data_graph = data_graph.skolemize() rebinds the name to a new graph: what
\* the loop does to the working graph does not reach the caller's object
CallerGraphAliased(caller, working) == working
CallerGraph(caller, working) == caller

\* for imp in imports: graph.add(imp)
RestoreImportsSkipped(g, imps) == g
RestoreImports(g, imps) == g \cup imps

\* data_graph += inferred_graph
MergeReplaces(g, inferred) == inferred
Merge(g, inferred) == g \cup inferred

\* the condition of the while loop
LoopConditionNoBudget(changed, iteration, lo, hi) ==
    changed \/ iteration < lo
LoopConditionNoMinimum(changed, iteration, lo, hi) ==
    changed /\ iteration < hi
LoopCondition(changed, iteration, lo, hi) ==
    (changed \/ iteration < lo) /\ iteration < hi

\* the condition of the break
EarlyExitEqual(inferred) ==
    /\ early_isomorphic_exit
    /\ previous_inferred_graph # NoGraph
    /\ inferred = previous_inferred_graph
EarlyExit(inferred) ==
    /\ early_isomorphic_exit
    /\ previous_inferred_graph # NoGraph
    /\ isomorphic(inferred, previous_inferred_graph)

\* the graphs Graph().parse can make of the engine's stdout at a pass
InferredGraphs(pass) == SUBSET EngineTriples(pass)

\* an engine answer without the labels the parser gave its blank nodes
CanonTerm(t) == IF t.k = "bnode" THEN BNode(t.id, 0) ELSE t
Canon(g) == {Triple(CanonTerm(t[1]), t[2], CanonTerm(t[3])) : t \in g}
\* tqinfer on the serialized input, parsed: any answer, or, for an engine
\* that is a function of its input, the answer it gave for this input before
EngineAnswers(input, pass) ==
    IF deterministic /\ \E p \in engine_memo : p[1] = input
       THEN {g \in InferredGraphs(pass) :
                \E p \in engine_memo : p[1] = input /\ p[2] = Canon(g)}
       ELSE InferredGraphs(pass)
Remember(input, answer) ==
    IF deterministic THEN engine_memo \cup {<<input, Canon(answer)>>}
                     ELSE engine_memo

\* infer, up to the while loop: imports leave the caller's graphs, the data
\* graph is rebound to its skolemized copy
InferStart ==
    /\ pc = "start"
    /\ imports' = ImportsOf(caller_data)
    /\ caller_data' = RemoveImports(caller_data)
    /\ data_graph' = skolemize(caller_data')
    /\ IF Truthy(caller_ont)
          THEN /\ ontology_imports' = ImportsOf(caller_ont)
               /\ caller_ont' = RemoveImports(caller_ont)
               /\ ontologies' = caller_ont'
          ELSE /\ ontologies' = {}
               /\ ontology_imports' = {}
               /\ caller_ont' = caller_ont
    /\ data_graph_size' = Cardinality(data_graph')
    /\ data_graph_size_changed' = TRUE
    /\ current_iteration' = 0
    /\ previous_inferred_graph' = NoGraph
    /\ pc' = "loop"
    /\ temp_dirs' = EnterTemporaryDirectory(temp_dirs, "infer")
    /\ UNCHANGED <<inputs, cleaned, rerun_vars, engine_memo, failure_vars,
                   inferred_graph, loop_exit, engine_calls, engine_input,
                   returned, validate_vars, error>>

\* one pass of the loop whose output parses and is merged
InferPass ==
    /\ pc = "loop"
    /\ LoopCondition(data_graph_size_changed, current_iteration,
                     min_iterations, max_iterations)
    /\ engine_input' = data_graph \cup ontologies
    /\ engine_calls' = engine_calls + 1
    /\ \E g \in EngineAnswers(data_graph \cup ontologies, engine_calls + 1) :
          /\ inferred_graph' = g
          /\ engine_memo' = Remember(data_graph \cup ontologies, g)
          /\ ~EarlyExit(g)
          /\ previous_inferred_graph' = g
          /\ data_graph' = Merge(data_graph, g)
    /\ data_graph_size_changed' = (Cardinality(data_graph') # data_graph_size)
    /\ data_graph_size' = Cardinality(data_graph')
    /\ current_iteration' = current_iteration + 1
    /\ caller_data' = CallerGraph(caller_data, data_graph')
    /\ UNCHANGED <<inputs, cleaned, temp_dirs, rerun_vars, failure_vars, pc,
                   caller_ont, imports, ontology_imports, ontologies,
                   loop_exit, returned, validate_vars, error>>

\* one pass of the loop that ends in the break
InferBreak ==
    /\ pc = "loop"
    /\ LoopCondition(data_graph_size_changed, current_iteration,
                     min_iterations, max_iterations)
    /\ engine_input' = data_graph \cup ontologies
    /\ engine_calls' = engine_calls + 1
    /\ \E g \in EngineAnswers(data_graph \cup ontologies, engine_calls + 1) :
          /\ inferred_graph' = g
          /\ engine_memo' = Remember(data_graph \cup ontologies, g)
          /\ EarlyExit(g)
    /\ loop_exit' = "break"
    /\ pc' = "restore"
    /\ temp_dirs' = ExitTemporaryDirectory(temp_dirs, "infer")
    /\ UNCHANGED <<inputs, cleaned, rerun_vars, failure_vars, caller_data,
                   caller_ont, imports, ontology_imports, ontologies,
                   loop_vars, returned, validate_vars, error>>

\* one pass of the loop whose output Graph().parse rejects: the exception
\* leaves infer (and validate, when validate called it)
InferParseFailureSwallowed ==
    /\ pc = "loop"
    /\ LoopCondition(data_graph_size_changed, current_iteration,
                     min_iterations, max_iterations)
    /\ engine_input' = data_graph \cup ontologies
    /\ engine_calls' = engine_calls + 1
    /\ \E raw \in RawFailures :
          /\ raw_output' = raw
          /\ error_text' = BadSyntax(clean_stdout(raw.stdout))
    /\ error' = "ParseFailure"
    /\ data_graph_size_changed' = FALSE
    /\ current_iteration' = current_iteration + 1
    /\ UNCHANGED <<inputs, cleaned, temp_dirs, rerun_vars, engine_memo,
                   inferred_graph, pc, caller_data, caller_ont, imports,
                   ontology_imports, ontologies, data_graph, data_graph_size,
                   previous_inferred_graph, loop_exit, returned,
                   validate_vars>>
InferParseFailure ==
    /\ pc = "loop"
    /\ LoopCondition(data_graph_size_changed, current_iteration,
                     min_iterations, max_iterations)
    /\ engine_input' = data_graph \cup ontologies
    /\ engine_calls' = engine_calls + 1
    /\ \E raw \in RawFailures :
          /\ raw_output' = raw
          /\ error_text' = BadSyntax(clean_stdout(raw.stdout))
    /\ error' = "ParseFailure"
    /\ pc' = "failed"
    /\ temp_dirs' = ExitTemporaryDirectory(temp_dirs, "infer")
    /\ UNCHANGED <<inputs, cleaned, rerun_vars, engine_memo, inferred_graph,
                   caller_data, caller_ont, imports, ontology_imports,
                   ontologies, loop_vars, loop_exit, returned,
                   validate_vars>>

\* the while condition is false
InferLoopEnd ==
    /\ pc = "loop"
    /\ ~LoopCondition(data_graph_size_changed, current_iteration,
                      min_iterations, max_iterations)
    /\ loop_exit' = "condition"
    /\ pc' = "restore"
    /\ temp_dirs' = ExitTemporaryDirectory(temp_dirs, "infer")
    /\ UNCHANGED <<inputs, cleaned, rerun_vars, engine_memo, failure_vars,
                   inferred_graph, caller_data, caller_ont, imports,
                   ontology_imports, ontologies, loop_vars, engine_calls,
                   engine_input, returned, validate_vars, error>>

\* infer, after the loop: imports go back into the local graphs, the
\* de-skolemized copy is returned
InferReturn ==
    /\ pc = "restore"
    /\ data_graph' = RestoreImports(data_graph, imports)
    /\ IF Truthy(ontologies)
          THEN /\ ontologies' = RestoreImports(ontologies, ontology_imports)
               /\ caller_ont' = ontologies'
          ELSE UNCHANGED <<ontologies, caller_ont>>
    /\ returned' = de_skolemize(data_graph')
    /\ pc' = IF call = "infer" THEN "done" ELSE "validate"
    /\ UNCHANGED <<inputs, cleaned, temp_dirs, rerun_vars, engine_memo,
                   failure_vars, inferred_graph, caller_data, imports,
                   ontology_imports, data_graph_size,
                   data_graph_size_changed, current_iteration,
                   previous_inferred_graph, loop_exit, engine_calls,
                   engine_input, validate_vars, error>>

(* ------------------------- report interpreter -------------------------- *)
\* one line of the report text; block is the number of the result block the
\* line belongs to (0: the header)
Line(kind, block, val) == [kind |-> kind, block |-> block, val |-> val]

\* list(report_g.objects(report_node, SH.result))
ReportResults(r) == SelectSeq(r.results, LAMBDA x : x.linked)

\* bool(report_g.value(report_node, SH.conforms))
ReportConformsUnlessFalse(r) == r.conforms # "false"
ReportConforms(r) == r.conforms = "true"

\* the guard of the result blocks
ShowResultsFirstOnly(conforms, results) ==
    IF ~conforms /\ results # <<>> THEN <<Head(results)>> ELSE <<>>
ShowResults(conforms, results) ==
    IF ~conforms /\ results # <<>> THEN results ELSE <<>>

\* Python's truth value of what report_g.value returned: None is false, an
\* IRI or a blank node is true, a literal has the truth of its Python value
FalsyLiterals == {"", "0"}
TermTruthy(x) == x # "none" /\ x \notin FalsyLiterals

\* the lines of one result block
ResultBlock(i, res) ==
    <<Line("--- Result ---", i, "")>>
    \o (IF TermTruthy(res.severity)
           THEN <<Line("Severity", i, res.severity)>> ELSE <<>>)
    \o (IF TermTruthy(res.focusNode)
           THEN <<Line("Focus Node", i, res.focusNode)>> ELSE <<>>)
    \o (IF TermTruthy(res.message)
           THEN <<Line("Message", i, res.message)>> ELSE <<>>)
    \o (IF TermTruthy(res.path)
           THEN <<Line("Path", i, res.path)>> ELSE <<>>)
    \o (IF TermTruthy(res.value)
           THEN <<Line("Value", i, res.value)>> ELSE <<>>)
    \o (IF TermTruthy(res.sourceConstraintComponent)
           THEN <<Line("Source Constraint", i, res.sourceConstraintComponent)>>
           ELSE <<>>)
    \o (IF TermTruthy(res.sourceShape)
           THEN <<Line("Source Shape", i, res.sourceShape)>> ELSE <<>>)

RECURSIVE ResultBlocks(_, _)
ResultBlocks(results, i) ==
    IF i > Len(results) THEN <<>>
    ELSE ResultBlock(i, results[i]) \o ResultBlocks(results, i + 1)

pretty_print_report(r) ==
    IF ~r.hasReport
       THEN <<Line("No validation report found in the graph.", 0, "")>>
       ELSE LET conforms == ReportConforms(r)
                shown == ShowResults(conforms, ReportResults(r))
            IN  <<Line("Validation Report", 0, ""),
                  Line("Conforms", 0, IF conforms THEN "True" ELSE "False")>>
                \o (IF shown # <<>>
                       THEN <<Line("Validation Results", Len(ReportResults(r)), "")>>
                            \o ResultBlocks(shown, 1)
                       ELSE <<>>)

\* len(list(report_g.subjects(SH.resultSeverity, SH.Violation)))
has_violation(r) ==
    PyInt(Cardinality({i \in 1..Len(r.results) :
                          r.results[i].severity = "sh:Violation"}))
\* len(list(report_g.subjects(SH.conforms, Literal(True))))
conforms_count(r) ==
    PyInt((IF r.conforms = "true" THEN 1 ELSE 0)
          + (IF r.conformsElsewhere THEN 1 ELSE 0))
\* validates = not has_violation or conforms
ValidatesAnd(r) ==
    IF PyTruth(has_violation(r)) THEN PyBool(FALSE) ELSE conforms_count(r)
Validates(r) == NotAOrB(has_violation(r), conforms_count(r))

(* ------------------------------ validate ------------------------------- *)
\* what tqvalidate may print in a run of the whole call
ValidationOutputs ==
    {Unparseable, Parseable(ViolationReport), Parseable(ConformingReport)}

\* graph_to_validate: the data graph, plus the shape graph when it is truthy
GraphToValidateDataOnly(data, shapes) == data
GraphToValidate(data, shapes) ==
    IF Truthy(shapes) THEN data \cup shapes ELSE data

\* validate, from the return of infer to the end of the import restoration:
\* the engine is run on the inferred graph and the shapes
ValidateEngine ==
    /\ pc = "validate"
    /\ LET data_imports == ImportsOf(returned)
           data_stripped == RemoveImports(returned)
           shape_imports == IF Truthy(caller_ont) THEN ImportsOf(caller_ont) ELSE {}
           shape_stripped == IF Truthy(caller_ont) THEN RemoveImports(caller_ont)
                             ELSE caller_ont
       IN  /\ engine_input' = GraphToValidate(data_stripped, shape_stripped)
           /\ returned' = RestoreImports(data_stripped, data_imports)
           /\ caller_ont' = IF Truthy(shape_stripped)
                               THEN RestoreImports(shape_stripped, shape_imports)
                               ELSE shape_stripped
    /\ validate_calls' = validate_calls + 1
    /\ stdout' \in ValidationOutputs
    /\ pc' = "report"
    /\ temp_dirs' = ExitTemporaryDirectory(
                        EnterTemporaryDirectory(temp_dirs, "validate"),
                        "validate")
    /\ UNCHANGED <<inputs, cleaned, rerun_vars, engine_memo, failure_vars,
                   inferred_graph, caller_data, imports, ontology_imports,
                   ontologies, loop_vars, loop_exit, engine_calls, result,
                   error>>

\* validate, the rest: the report parses, the verdict and the text are made
ValidateReport ==
    /\ pc = "report"
    /\ stdout.parses
    /\ result' = <<[validates |-> Validates(stdout.graph),
                    report_g |-> stdout.graph,
                    text |-> pretty_print_report(stdout.graph)]>>
    /\ pc' = "done"
    /\ UNCHANGED <<inputs, cleaned, temp_dirs, rerun_vars, engine_memo,
                   failure_vars, inferred_graph, caller_data, caller_ont,
                   imports, ontology_imports, ontologies, loop_vars,
                   loop_exit, engine_calls, validate_calls, engine_input,
                   returned, stdout, error>>

\* validate, the rest: report_g.parse rejects the output
ValidateParseFailure ==
    /\ pc = "report"
    /\ ~stdout.parses
    /\ \E raw \in RawFailures :
          /\ raw_output' = raw
          /\ error_text' = BadSyntax(clean_stdout(raw.stdout))
    /\ error' = "ParseFailure"
    /\ pc' = "failed"
    /\ UNCHANGED <<inputs, cleaned, temp_dirs, rerun_vars, engine_memo,
                   inferred_graph, caller_data, caller_ont, imports,
                   ontology_imports, ontologies, loop_vars, loop_exit,
                   engine_calls, validate_calls, engine_input, returned,
                   stdout, result>>

Next ==
    \/ InferStart
    \/ InferPass
    \/ InferBreak
    \/ InferParseFailure
    \/ InferLoopEnd
    \/ InferReturn
    \/ ValidateEngine
    \/ ValidateReport
    \/ ValidateParseFailure

Spec == Init /\ [][Next]_vars

(* ------------- the report interpreter on every report graph ------------ *)
\* validate(Graph(), None, 0, 0) at the point where tqvalidate has printed
InitReport ==
    /\ call = "validate"
    /\ pc = "report"
    /\ arg_data = {}
    /\ arg_ont = NoGraph
    /\ caller_data = {}
    /\ caller_ont = NoGraph
    /\ min_iterations = 0
    /\ max_iterations = 0
    /\ early_isomorphic_exit = FALSE
    /\ imports = {}
    /\ ontology_imports = {}
    /\ ontologies = {}
    /\ data_graph = {}
    /\ data_graph_size = 0
    /\ data_graph_size_changed = TRUE
    /\ current_iteration = 0
    /\ previous_inferred_graph = NoGraph
    /\ loop_exit = "condition"
    /\ engine_calls = 0
    /\ validate_calls = 1
    /\ engine_input = {}
    /\ returned = {}
    /\ stdout \in {Unparseable} \cup {Parseable(r) : r \in ReportGraphs(MaxResults)}
    /\ result = NoResult
    /\ error = "none"
    /\ inferred_graph = NoGraph
    /\ raw_output = NoOutput
    /\ error_text = NoError
    /\ deterministic = FALSE
    /\ engine_memo = {}
    /\ first_run = <<>>
    /\ temp_dirs = {}
    /\ cleaned = <<>>

NextReport ==
    \/ ValidateReport
    \/ ValidateParseFailure

SpecReport == InitReport /\ [][NextReport]_vars

\* the same point of validate, for the report graphs with detailed results
InitBlocks ==
    /\ call = "validate"
    /\ pc = "report"
    /\ arg_data = {}
    /\ arg_ont = NoGraph
    /\ caller_data = {}
    /\ caller_ont = NoGraph
    /\ min_iterations = 0
    /\ max_iterations = 0
    /\ early_isomorphic_exit = FALSE
    /\ imports = {}
    /\ ontology_imports = {}
    /\ ontologies = {}
    /\ data_graph = {}
    /\ data_graph_size = 0
    /\ data_graph_size_changed = TRUE
    /\ current_iteration = 0
    /\ previous_inferred_graph = NoGraph
    /\ loop_exit = "condition"
    /\ engine_calls = 0
    /\ validate_calls = 1
    /\ engine_input = {}
    /\ returned = {}
    /\ stdout \in {Parseable(r) : r \in DetailedReportGraphs(MaxResults)}
    /\ result = NoResult
    /\ error = "none"
    /\ inferred_graph = NoGraph
    /\ raw_output = NoOutput
    /\ error_text = NoError
    /\ deterministic = FALSE
    /\ engine_memo = {}
    /\ first_run = <<>>
    /\ temp_dirs = {}
    /\ cleaned = <<>>

NextBlocks == ValidateReport

SpecBlocks == InitBlocks /\ [][NextBlocks]_vars




(* ---------------------- clean_stdout on every text --------------------- *)
\* an engine run has printed a text; nothing else has happened
InitClean ==
    /\ call = "infer"
    /\ pc = "clean"
    /\ arg_data = {}
    /\ arg_ont = NoGraph
    /\ caller_data = {}
    /\ caller_ont = NoGraph
    /\ min_iterations = 0
    /\ max_iterations = 0
    /\ early_isomorphic_exit = FALSE
    /\ imports = {}
    /\ ontology_imports = {}
    /\ ontologies = {}
    /\ data_graph = {}
    /\ data_graph_size = 0
    /\ data_graph_size_changed = TRUE
    /\ current_iteration = 0
    /\ previous_inferred_graph = NoGraph
    /\ loop_exit = "none"
    /\ engine_calls = 0
    /\ validate_calls = 0
    /\ engine_input = {}
    /\ returned = NoGraph
    /\ stdout = Unparseable
    /\ result = NoResult
    /\ error = "none"
    /\ inferred_graph = NoGraph
    /\ raw_output \in {[stdout |-> t, stderr |-> <<>>] : t \in Texts(MaxText)}
    /\ error_text = NoError
    /\ deterministic = FALSE
    /\ engine_memo = {}
    /\ first_run = <<>>
    /\ temp_dirs = {}
    /\ cleaned = <<>>

\* clean_stdout is applied to the text, and then to what it returned
Clean ==
    /\ pc = "clean"
    /\ Len(cleaned) < 2
    /\ cleaned' = Append(cleaned,
                         clean_stdout(IF cleaned = <<>> THEN raw_output.stdout
                                      ELSE cleaned[Len(cleaned)]))
    /\ UNCHANGED <<inputs, pc, rerun_vars, engine_memo, failure_vars,
                   inferred_graph, temp_dirs, caller_data, caller_ont,
                   imports, ontology_imports, ontologies, loop_vars,
                   loop_exit, engine_calls, engine_input, returned,
                   validate_vars, error>>

NextClean == Clean

SpecClean == InitClean /\ [][NextClean]_vars

(* ------------- infer called again on the graph it returned ------------- *)
\* infer with an engine that is a function of its input graph and whose
\* output always parses; no ontology graph, or one with an import and a rule
InitRerun ==
    /\ call = "infer"
    /\ pc = "start"
    /\ arg_data \in SUBSET DataTriples
    /\ arg_ont \in {NoGraph, OntologyTriples}
    /\ caller_data = arg_data
    /\ caller_ont = arg_ont
    /\ min_iterations \in 0..MaxIter
    /\ max_iterations \in 0..MaxIter
    /\ early_isomorphic_exit \in BOOLEAN
    /\ imports = {}
    /\ ontology_imports = {}
    /\ ontologies = NoGraph
    /\ data_graph = {}
    /\ data_graph_size = 0
    /\ data_graph_size_changed = FALSE
    /\ current_iteration = 0
    /\ previous_inferred_graph = NoGraph
    /\ loop_exit = "none"
    /\ engine_calls = 0
    /\ validate_calls = 0
    /\ engine_input = NoGraph
    /\ returned = NoGraph
    /\ stdout = Unparseable
    /\ result = NoResult
    /\ error = "none"
    /\ inferred_graph = NoGraph
    /\ raw_output = NoOutput
    /\ error_text = NoError
    /\ deterministic = TRUE
    /\ engine_memo = {}
    /\ first_run = <<>>
    /\ temp_dirs = {}
    /\ cleaned = <<>>

\* the loop ended below its budget because a pass left the size unchanged
Fixpoint ==
    /\ loop_exit = "condition"
    /\ ~data_graph_size_changed
    /\ current_iteration < max_iterations

\* after a call that ended in a fixpoint, the caller passes the returned
\* graph and the same ontology graph to a second call of infer, with the
\* same settings
Rerun ==
    /\ pc = "done"
    /\ first_run = <<>>
    /\ Fixpoint
    /\ first_run' = <<[returned |-> returned, passes |-> current_iteration]>>
    /\ arg_data' = returned
    /\ caller_data' = returned
    /\ arg_ont' = caller_ont
    /\ returned' = NoGraph
    /\ inferred_graph' = NoGraph
    /\ loop_exit' = "none"
    /\ pc' = "start"
    /\ UNCHANGED <<call, min_iterations, max_iterations,
                   early_isomorphic_exit, deterministic, engine_memo,
                   failure_vars, caller_ont, imports, ontology_imports,
                   ontologies, loop_vars, engine_calls, engine_input,
                   validate_vars, error, temp_dirs, cleaned>>

NextRerun ==
    \/ InferStart
    \/ InferPass
    \/ InferBreak
    \/ InferLoopEnd
    \/ InferReturn
    \/ Rerun

SpecRerun == InitRerun /\ [][NextRerun]_vars


(* ------------------- the variant of the pyshacl module ----------------- *)
\* the value of Graph.remove((None, OWL.imports, None)): the graph itself,
\* which holds the triples that are left
RemoveResult(g) == RemoveImports(g)
\* str(report_g.serialize(format="turtle"))
Serialize(r) == [format |-> "turtle", graph |-> r]
\* the condition of the variant's while loop
PyLoopCondition(changed, iteration, hi) == changed /\ iteration < hi

\* a call of the variant: it has no min_iterations and no early exit
InitPyshacl ==
    /\ call \in {"infer", "validate"}
    /\ pc = "start"
    /\ arg_data \in SUBSET DataTriples
    /\ arg_ont \in {NoGraph} \cup SUBSET OntologyTriples
    /\ caller_data = arg_data
    /\ caller_ont = arg_ont
    /\ min_iterations = 0
    /\ max_iterations \in 0..MaxIter
    /\ early_isomorphic_exit = FALSE
    /\ imports = {}
    /\ ontology_imports = {}
    /\ ontologies = NoGraph
    /\ data_graph = {}
    /\ data_graph_size = 0
    /\ data_graph_size_changed = FALSE
    /\ current_iteration = 0
    /\ previous_inferred_graph = NoGraph
    /\ loop_exit = "none"
    /\ engine_calls = 0
    /\ validate_calls = 0
    /\ engine_input = NoGraph
    /\ returned = NoGraph
    /\ stdout = Unparseable
    /\ result = NoResult
    /\ error = "none"
    /\ inferred_graph = NoGraph
    /\ raw_output = NoOutput
    /\ error_text = NoError
    /\ deterministic = FALSE
    /\ engine_memo = {}
    /\ first_run = <<>>
    /\ temp_dirs = {}
    /\ cleaned = <<>>

\* infer of the variant, up to the while loop: data_graph stays the caller's
\* object, ontology_imports is what Graph.remove returned
PyInferStart ==
    /\ pc = "start"
    /\ imports' = ImportsOf(caller_data)
    /\ caller_data' = RemoveImports(caller_data)
    /\ data_graph' = caller_data'
    /\ IF Truthy(caller_ont)
          THEN /\ ontology_imports' = RemoveResult(caller_ont)
               /\ caller_ont' = RemoveImports(caller_ont)
               /\ ontologies' = caller_ont'
          ELSE /\ ontologies' = {}
               /\ ontology_imports' = {}
               /\ caller_ont' = caller_ont
    /\ data_graph_size' = Cardinality(data_graph')
    /\ data_graph_size_changed' = TRUE
    /\ current_iteration' = 0
    /\ pc' = "loop"
    /\ UNCHANGED <<inputs, cleaned, temp_dirs, rerun_vars, engine_memo,
                   failure_vars, inferred_graph, previous_inferred_graph,
                   loop_exit, engine_calls, engine_input, returned,
                   validate_vars, error>>

\* one pass of the variant's loop whose output parses
PyInferPass ==
    /\ pc = "loop"
    /\ PyLoopCondition(data_graph_size_changed, current_iteration,
                       max_iterations)
    /\ engine_input' = data_graph \cup ontologies
    /\ engine_calls' = engine_calls + 1
    /\ \E g \in InferredGraphs(engine_calls + 1) :
          /\ inferred_graph' = g
          /\ data_graph' = Merge(data_graph, g)
    /\ caller_data' = data_graph'
    /\ data_graph_size_changed' = (Cardinality(data_graph') # data_graph_size)
    /\ data_graph_size' = Cardinality(data_graph')
    /\ current_iteration' = current_iteration + 1
    /\ UNCHANGED <<inputs, cleaned, temp_dirs, rerun_vars, engine_memo,
                   failure_vars, pc, caller_ont, imports, ontology_imports,
                   ontologies, previous_inferred_graph, loop_exit, returned,
                   validate_vars, error>>

\* one pass of the variant's loop whose output Graph().parse rejects
PyInferParseFailure ==
    /\ pc = "loop"
    /\ PyLoopCondition(data_graph_size_changed, current_iteration,
                       max_iterations)
    /\ engine_input' = data_graph \cup ontologies
    /\ engine_calls' = engine_calls + 1
    /\ error' = "ParseFailure"
    /\ pc' = "failed"
    /\ UNCHANGED <<inputs, cleaned, temp_dirs, rerun_vars, engine_memo,
                   failure_vars, inferred_graph, caller_data, caller_ont,
                   imports, ontology_imports, ontologies, loop_vars,
                   loop_exit, returned, validate_vars>>

\* infer of the variant, after the loop: the imports go back into the
\* caller's data graph; the ontology graph is given the triples of
\* ontology_imports
PyInferReturn ==
    /\ pc = "loop"
    /\ ~PyLoopCondition(data_graph_size_changed, current_iteration,
                        max_iterations)
    /\ loop_exit' = "condition"
    /\ data_graph' = RestoreImports(data_graph, imports)
    /\ caller_data' = data_graph'
    /\ IF Truthy(ontologies)
          THEN /\ ontologies' = RestoreImports(ontologies, ontology_imports)
               /\ caller_ont' = ontologies'
          ELSE UNCHANGED <<ontologies, caller_ont>>
    /\ returned' = data_graph'
    /\ pc' = IF call = "infer" THEN "done" ELSE "validate"
    /\ UNCHANGED <<inputs, cleaned, temp_dirs, rerun_vars, engine_memo,
                   failure_vars, inferred_graph, imports, ontology_imports,
                   data_graph_size, data_graph_size_changed,
                   current_iteration, previous_inferred_graph, engine_calls,
                   engine_input, validate_vars, error>>

\* validate of the variant, from the return of infer to the end of the
\* import restoration
PyValidateEngine ==
    /\ pc = "validate"
    /\ LET data_imports == ImportsOf(returned)
           data_stripped == RemoveImports(returned)
           shape_imports == IF Truthy(caller_ont) THEN RemoveResult(caller_ont)
                            ELSE {}
           shape_stripped == IF Truthy(caller_ont) THEN RemoveImports(caller_ont)
                             ELSE caller_ont
       IN  /\ engine_input' = GraphToValidate(data_stripped, shape_stripped)
           /\ returned' = RestoreImports(data_stripped, data_imports)
           /\ caller_data' = returned'
           /\ caller_ont' = IF Truthy(shape_stripped)
                               THEN RestoreImports(shape_stripped, shape_imports)
                               ELSE shape_stripped
    /\ validate_calls' = validate_calls + 1
    /\ stdout' \in ValidationOutputs
    /\ pc' = "report"
    /\ UNCHANGED <<inputs, cleaned, temp_dirs, rerun_vars, engine_memo,
                   failure_vars, inferred_graph, imports, ontology_imports,
                   ontologies, loop_vars, loop_exit, engine_calls, result,
                   error>>

\* validate of the variant, the rest: the report parses
PyValidateReport ==
    /\ pc = "report"
    /\ stdout.parses
    /\ result' = <<[validates |-> Validates(stdout.graph),
                    report_g |-> stdout.graph,
                    text |-> Serialize(stdout.graph)]>>
    /\ pc' = "done"
    /\ UNCHANGED <<inputs, cleaned, temp_dirs, rerun_vars, engine_memo,
                   failure_vars, inferred_graph, caller_data, caller_ont,
                   imports, ontology_imports, ontologies, loop_vars,
                   loop_exit, engine_calls, validate_calls, engine_input,
                   returned, stdout, error>>

\* validate of the variant, the rest: report_g.parse rejects the output
PyValidateParseFailure ==
    /\ pc = "report"
    /\ ~stdout.parses
    /\ error' = "ParseFailure"
    /\ pc' = "failed"
    /\ UNCHANGED <<inputs, cleaned, temp_dirs, rerun_vars, engine_memo,
                   failure_vars, inferred_graph, caller_data, caller_ont,
                   imports, ontology_imports, ontologies, loop_vars,
                   loop_exit, engine_calls, validate_calls, engine_input,
                   returned, stdout, result>>

NextPyshacl ==
    \/ PyInferStart
    \/ PyInferPass
    \/ PyInferParseFailure
    \/ PyInferReturn
    \/ PyValidateEngine
    \/ PyValidateReport
    \/ PyValidateParseFailure

SpecPyshacl == InitPyshacl /\ [][NextPyshacl]_vars

(* --------------- the variant of the topquadrant_shacl module ----------- *)
\* _MAX_EXTERNAL_LOOPS
MAX_EXTERNAL_LOOPS == 10

\* what the variant's engine may print at a pass: the facts of EngineTriples
\* and a fact about an IRI the engine mints at that pass
TqEngineTriples(pass) ==
    { Triple(IRI("ex:sensor"), IRI("rdf:type"), IRI("brick:Air_Quality_Sensor")),
      Triple(BNode("e", pass), IRI("rdf:type"), IRI("brick:Tag")),
      Triple(IRI("ex:sensor"), IRI("brick:hasTag"),
             [k |-> "iri", id |-> "ex:tag", n |-> pass]) }
\* the triples of the output that have no blank node as subject or object
WithoutBNodeTriples(g) == {t \in g : t[1].k # "bnode" /\ t[3].k # "bnode"}
\* the condition of the variant's while loop
TqLoopCondition(sizes_differ, iteration) ==
    sizes_differ /\ iteration < MAX_EXTERNAL_LOOPS
\* the exception the variant raises when the output does not parse
TqParseError(contents, stderr) ==
    [exc |-> "Exception", text |-> Join(<<contents, stderr>>)]

\* a call of the variant's infer; ontologies is a graph, max_iterations is
\* an option of the engine
InitTopquadrant ==
    /\ call = "infer"
    /\ pc = "start"
    /\ arg_data \in SUBSET DataTriples
    /\ arg_ont \in SUBSET OntologyTriples
    /\ caller_data = arg_data
    /\ caller_ont = arg_ont
    /\ min_iterations = 0
    /\ max_iterations \in 0..MaxIter
    /\ early_isomorphic_exit = FALSE
    /\ imports = {}
    /\ ontology_imports = {}
    /\ ontologies = NoGraph
    /\ data_graph = {}
    /\ data_graph_size = 0
    /\ data_graph_size_changed = FALSE
    /\ current_iteration = 0
    /\ previous_inferred_graph = NoGraph
    /\ loop_exit = "none"
    /\ engine_calls = 0
    /\ validate_calls = 0
    /\ engine_input = NoGraph
    /\ returned = NoGraph
    /\ stdout = Unparseable
    /\ result = NoResult
    /\ error = "none"
    /\ inferred_graph = NoGraph
    /\ raw_output = NoOutput
    /\ error_text = NoError
    /\ deterministic = FALSE
    /\ engine_memo = {}
    /\ first_run = <<>>
    /\ temp_dirs = {}
    /\ cleaned = <<>>

\* infer of the variant, up to the while loop: previous_size = 0 and
\* current_size = len(data_graph), so the sizes differ iff the graph is not
\* empty
TqInferStart ==
    /\ pc = "start"
    /\ imports' = ImportsOf(caller_data)
    /\ caller_data' = RemoveImports(caller_data)
    /\ data_graph' = caller_data'
    /\ ontology_imports' = RemoveResult(caller_ont)
    /\ caller_ont' = RestoreImports(RemoveImports(caller_ont),
                                    RemoveResult(caller_ont))
    /\ ontologies' = caller_ont'
    /\ temp_dirs' = EnterTemporaryDirectory(temp_dirs, "infer")
    /\ data_graph_size' = Cardinality(data_graph')
    /\ data_graph_size_changed' = (0 # Cardinality(data_graph'))
    /\ current_iteration' = 0
    /\ pc' = "loop"
    /\ UNCHANGED <<inputs, cleaned, rerun_vars, engine_memo, failure_vars,
                   inferred_graph, previous_inferred_graph, loop_exit,
                   engine_calls, engine_input, returned, validate_vars, error>>

\* one pass of the variant's loop whose output parses
TqInferPass ==
    /\ pc = "loop"
    /\ TqLoopCondition(data_graph_size_changed, current_iteration)
    /\ engine_input' = data_graph \cup ontologies
    /\ engine_calls' = engine_calls + 1
    /\ \E g \in SUBSET TqEngineTriples(engine_calls + 1) :
          /\ inferred_graph' = g
          /\ data_graph' = Merge(data_graph, WithoutBNodeTriples(g))
    /\ caller_data' = data_graph'
    /\ data_graph_size_changed' = (data_graph_size # Cardinality(data_graph'))
    /\ data_graph_size' = Cardinality(data_graph')
    /\ current_iteration' = current_iteration + 1
    /\ UNCHANGED <<inputs, cleaned, temp_dirs, rerun_vars, engine_memo,
                   failure_vars, pc, caller_ont, imports, ontology_imports,
                   ontologies, previous_inferred_graph, loop_exit, returned,
                   validate_vars, error>>

\* one pass of the variant's loop whose output does not parse
TqInferParseFailure ==
    /\ pc = "loop"
    /\ TqLoopCondition(data_graph_size_changed, current_iteration)
    /\ engine_input' = data_graph \cup ontologies
    /\ engine_calls' = engine_calls + 1
    /\ \E raw \in RawFailures :
          /\ raw_output' = raw
          /\ error_text' = TqParseError(clean_stdout(raw.stdout), raw.stderr)
    /\ error' = "ParseFailure"
    /\ temp_dirs' = ExitTemporaryDirectory(temp_dirs, "infer")
    /\ pc' = "failed"
    /\ UNCHANGED <<inputs, cleaned, rerun_vars, engine_memo, inferred_graph,
                   caller_data, caller_ont, imports, ontology_imports,
                   ontologies, loop_vars, loop_exit, returned, validate_vars>>

\* infer of the variant, after the loop
TqInferReturn ==
    /\ pc = "loop"
    /\ ~TqLoopCondition(data_graph_size_changed, current_iteration)
    /\ loop_exit' = "condition"
    /\ data_graph' = RestoreImports(data_graph, imports)
    /\ caller_data' = data_graph'
    /\ returned' = data_graph'
    /\ temp_dirs' = ExitTemporaryDirectory(temp_dirs, "infer")
    /\ pc' = "done"
    /\ UNCHANGED <<inputs, cleaned, rerun_vars, engine_memo, failure_vars,
                   inferred_graph, caller_ont, imports, ontology_imports,
                   ontologies, data_graph_size, data_graph_size_changed,
                   current_iteration, previous_inferred_graph, engine_calls,
                   engine_input, validate_vars, error>>

NextTopquadrant ==
    \/ TqInferStart
    \/ TqInferPass
    \/ TqInferParseFailure
    \/ TqInferReturn

SpecTopquadrant == InitTopquadrant /\ [][NextTopquadrant]_vars

(* ======================= properties: import guard ====================== *)
\* the call has returned normally to its caller
Returned == pc = "done"
\* the while loop of infer has ended without an exception
LoopEnded == loop_exit # "none"

\* C1: when infer or validate returns normally, the graph object the caller
\* passed as data_graph holds exactly the owl:imports triples it held before
\* the call.
C1_CallerDataImportsKept ==
    Returned => ImportsOf(caller_data) = ImportsOf(arg_data)

C3_OntologyUnchanged ==
    Returned => caller_ont = arg_ont

(* ===================== properties: inference loop ====================== *)
\* C4: one call of infer (and the inference phase of one call of validate)
\* invokes the engine in inference mode at most max_iterations times and then
\* halts: once the budget is used the loop condition is false; with
\* max_iterations = 0 the engine is never invoked.
C4_AtMostMaxIterations ==
    /\ engine_calls <= max_iterations
    /\ (pc = "loop" /\ engine_calls = max_iterations) =>
           ~LoopCondition(data_graph_size_changed, current_iteration,
                          min_iterations, max_iterations)
    /\ pc \in {"restore", "validate", "report", "done", "failed"} =>
           ~ENABLED (InferPass \/ InferBreak \/ InferParseFailure)
\* a call ended with its whole budget of MaxIter passes used
C4_Witness ==
    /\ Returned
    /\ max_iterations = MaxIter
    /\ engine_calls = MaxIter

Min(a, b) == IF a <= b THEN a ELSE b

\* C5 as stated: whenever min_iterations <= max_iterations and no pass fails
\* to parse, infer performs at least min_iterations engine passes, for both
\* settings of early_isomorphic_exit.
C5_MinIterationsBothSettings ==
    (LoopEnded /\ min_iterations <= max_iterations) =>
        engine_calls >= min_iterations
\* C5 as amended: whenever min_iterations <= max_iterations and no pass fails
\* to parse, infer performs at least min_iterations engine passes when
\* early_isomorphic_exit is false, even if the data graph stops growing
\* earlier; when it is true the break can end the loop from the second pass
\* on, so at least min(min_iterations, 2) passes are performed.
C5_MinIterations ==
    (LoopEnded /\ min_iterations <= max_iterations) =>
        /\ ~early_isomorphic_exit => engine_calls >= min_iterations
        /\ early_isomorphic_exit => engine_calls >= Min(min_iterations, 2)
        /\ loop_exit = "condition" => engine_calls >= min_iterations
\* the graph never grew, and still MaxIter = min_iterations passes were made
C5_Witness ==
    /\ LoopEnded
    /\ ~early_isomorphic_exit
    /\ min_iterations = MaxIter
    /\ max_iterations = MaxIter
    /\ engine_calls = MaxIter
    /\ data_graph_size = Cardinality(RemoveImports(arg_data))

\* C9: within one run of infer the working data graph only grows: every
\* triple present before a pass is still present after it, and the recorded
\* size never decreases.
C9_WorkingGraphGrows ==
    [][(pc = "loop" \/ pc = "restore") =>
           (data_graph \subseteq data_graph' /\ data_graph_size <= data_graph_size')]_vars
\* two passes have been made and each added a triple
C9_Witness ==
    /\ pc = "loop"
    /\ current_iteration >= 2
    /\ data_graph_size >= Cardinality(RemoveImports(arg_data)) + 2

\* C10: if the engine's output at some pass cannot be parsed, infer fails at
\* that pass: the engine is not invoked again in that call and no graph is
\* returned; a malformed validation report makes validate fail without
\* returning a verdict, report graph or text.
C10_ParseFailureIsFatal ==
    /\ [](error = "ParseFailure" =>
            (pc = "failed" /\ result = NoResult
             /\ (validate_calls = 0 => returned = NoGraph)))
    /\ []((validate_calls > 0 /\ ~stdout.parses /\ pc # "report") =>
            (pc = "failed" /\ result = NoResult))
    /\ [][error = "ParseFailure" =>
            UNCHANGED <<engine_calls, validate_calls, returned, result>>]_vars
\* infer failed at its second pass or later
C10_Witness ==
    /\ call = "infer"
    /\ error = "ParseFailure"
    /\ engine_calls >= 2
    /\ returned = NoGraph

(* =================== properties: report interpreter ==================== *)
\* validate has returned its tuple
Validated == Len(result) = 1
verdict == PyTruth(result[1].validates)
report == result[1].report_g
text == result[1].text

HasLine(t, kind, val) ==
    \E j \in 1..Len(t) : t[j].kind = kind /\ t[j].val = val
ViolationResults(r) ==
    {i \in 1..Len(r.results) : r.results[i].severity = "sh:Violation"}
HasConformsTrue(r) == r.conforms = "true" \/ r.conformsElsewhere

\* C6: the verdict returned by validate is true exactly when the report has
\* no result with severity Violation or has a node with conforms = true.
C6_ConformanceRule ==
    Validated =>
        (verdict <=> (ViolationResults(report) = {} \/ HasConformsTrue(report)))
\* conforms = true together with a Violation result gave a true verdict
C6_Witness ==
    /\ Validated
    /\ ViolationResults(report) # {}
    /\ report.conforms = "true"
    /\ verdict

\* C7 as stated: the verdict and the report text agree: the text contains
\* the line 'Conforms: True' when the verdict is true and the line
\* 'Conforms: False' when the verdict is false.
C7_VerdictAndTextAgree ==
    Validated =>
        IF verdict THEN HasLine(text, "Conforms", "True")
                   ELSE HasLine(text, "Conforms", "False")
\* C7 as amended: for a report graph with a sh:ValidationReport node, a
\* false verdict comes with the line 'Conforms: False' and the line
\* 'Conforms: True' comes only with a true verdict; a true verdict comes with
\* 'Conforms: True' only when the report node itself declares conforms =
\* true (otherwise with 'Conforms: False'), and a graph without a report node
\* gets neither line.
C7_VerdictAndTextRelated ==
    Validated =>
        /\ (report.hasReport /\ ~verdict) => HasLine(text, "Conforms", "False")
        /\ HasLine(text, "Conforms", "True") => verdict
        /\ (verdict /\ report.hasReport /\ report.conforms # "true") =>
               HasLine(text, "Conforms", "False")
        /\ ~report.hasReport =>
               (~HasLine(text, "Conforms", "True")
                /\ ~HasLine(text, "Conforms", "False"))
\* a false verdict was returned with the line 'Conforms: False'
C7_Witness ==
    /\ Validated
    /\ ~verdict
    /\ report.hasReport
    /\ HasLine(text, "Conforms", "False")

FocusNodes == {"ex:air_temp_sensor", "none"}
\* the result blocks of the text that show severity Violation and cite focus
\* node f (f = "none": cite no focus node)
ViolationBlocks(t, f) ==
    {b \in 1..Len(t) :
        /\ \E j \in 1..Len(t) : t[j].kind = "--- Result ---" /\ t[j].block = b
        /\ \E j \in 1..Len(t) :
              t[j].kind = "Severity" /\ t[j].block = b /\ t[j].val = "sh:Violation"
        /\ IF f = "none"
              THEN ~\E j \in 1..Len(t) : t[j].kind = "Focus Node" /\ t[j].block = b
              ELSE \E j \in 1..Len(t) :
                      t[j].kind = "Focus Node" /\ t[j].block = b /\ t[j].val = f}

\* C8 as stated: whenever validate returns a false verdict, the text contains
\* a result block for each Violation-severity result of the report graph,
\* citing that result's focus node.
C8_BlockPerViolation ==
    (Validated /\ ~verdict) =>
        \A f \in FocusNodes :
            Cardinality(ViolationBlocks(text, f))
                >= Cardinality({i \in ViolationResults(report) :
                                   report.results[i].focusNode = f})
\* C8 as amended: whenever validate returns a false verdict and the report
\* graph has a sh:ValidationReport node, the text contains a result block for
\* each Violation-severity result that node lists under sh:result, citing
\* that result's focus node (a graph without a report node gets no block,
\* and neither does a result the report node does not list).
C8_BlockPerListedViolation ==
    (Validated /\ ~verdict /\ report.hasReport) =>
        \A f \in FocusNodes :
            Cardinality(ViolationBlocks(text, f))
                = Cardinality({i \in ViolationResults(report) :
                                  /\ report.results[i].linked
                                  /\ report.results[i].focusNode = f})
\* a false verdict with two listed Violation results, both shown with their
\* focus node
C8_Witness ==
    /\ Validated
    /\ ~verdict
    /\ Cardinality({i \in ViolationResults(report) :
                       /\ report.results[i].linked
                       /\ report.results[i].focusNode # "none"}) = 2
    /\ Cardinality(ViolationBlocks(text, "ex:air_temp_sensor")) = 2

(* ================= properties: failing exits, loop control ============= *)
\* the call has been left by an exception
Failed == pc = "failed"
\* the owl:imports triples of an optional graph
ImportsOfOptional(g) == IF g = NoGraph THEN {} ELSE ImportsOf(g)
StripOptional(g) == IF g = NoGraph THEN {} ELSE RemoveImports(g)

\* C11: on every failing exit of infer or validate the owl:imports triples of
\* the caller's data graph and of the ontology/shape graph are the same as
\* before the call.
C11_ImportsKeptOnFailure ==
    Failed =>
        /\ ImportsOf(caller_data) = ImportsOf(arg_data)
        /\ ImportsOfOptional(caller_ont) = ImportsOfOptional(arg_ont)

\* C17: with early_isomorphic_exit false, infer starts its first pass iff
\* max_iterations > 0, and after completing pass k it starts another pass iff
\* k < max_iterations and (pass k changed |data_graph| or k < min_iterations).
C17_LoopControl ==
    /\ []((pc = "loop" /\ ~early_isomorphic_exit) =>
            ((ENABLED InferPass) <=>
                IF current_iteration = 0
                   THEN max_iterations > 0
                   ELSE /\ current_iteration < max_iterations
                        /\ \/ data_graph_size_changed
                           \/ current_iteration < min_iterations))
    /\ [][(pc = "loop" /\ current_iteration' = current_iteration + 1) =>
            (data_graph_size_changed' <=>
                Cardinality(data_graph') # Cardinality(data_graph))]_vars
\* the loop stopped below its budget after a pass beyond min_iterations that
\* added no triple
C17_Witness ==
    /\ loop_exit = "condition"
    /\ ~early_isomorphic_exit
    /\ ~data_graph_size_changed
    /\ current_iteration > min_iterations
    /\ min_iterations >= 1
    /\ current_iteration < max_iterations

\* C15: the first component of the tuple returned by validate is a boolean
\* for every report graph, also one with Violation-severity results.
C15_VerdictIsBool ==
    Validated => result[1].validates.py = "bool"

\* C20 as stated: in validate the engine is invoked in validation mode
\* exactly once, only after the inference loop has terminated, and its input
\* is the union of the graph returned by inference and the shape graph, or
\* the inferred graph alone when no shape graph is given.
C20_ValidationInputIsUnion ==
    /\ validate_calls <= 1
    /\ (Returned /\ call = "validate") => validate_calls = 1
    /\ validate_calls = 1 =>
          /\ LoopEnded
          /\ engine_input = returned \cup (IF arg_ont = NoGraph THEN {} ELSE arg_ont)
\* C20 as amended: in a call of validate that returns, the engine is invoked
\* in validation mode exactly once, only after the inference loop has
\* terminated, and its input is the union of the graph returned by inference
\* and the shape graph, each without its owl:imports triples (the inferred
\* graph alone when no shape graph is given); it holds every other triple
\* merged during inference, de-skolemized.
C20_ValidationInput ==
    /\ validate_calls <= 1
    /\ (Returned /\ call = "validate") => validate_calls = 1
    /\ validate_calls = 1 =>
          /\ LoopEnded
          /\ call = "validate"
          /\ engine_input = RemoveImports(returned) \cup StripOptional(arg_ont)
          /\ RemoveImports(de_skolemize(data_graph)) \subseteq engine_input
\* validate returned for a shape graph with rules, after inference had added
\* triples
C20_Witness ==
    /\ Returned
    /\ call = "validate"
    /\ validate_calls = 1
    /\ StripOptional(arg_ont) # {}
    /\ data_graph_size > Cardinality(RemoveImports(arg_data))

(* ================== properties: early exit, diagnostics ================ *)
\* C18: with early_isomorphic_exit true, a pass (from the second on) whose
\* inferred graph is isomorphic to the previous pass's stops the loop at once
\* and is not merged; with the flag false, or on the first pass, the loop
\* never stops for this reason.
C18_EarlyExit ==
    [][ ((loop_exit = "none" /\ loop_exit' = "break") =>
            (/\ early_isomorphic_exit
             /\ previous_inferred_graph # NoGraph
             /\ current_iteration >= 1
             /\ isomorphic(inferred_graph', previous_inferred_graph)
             /\ data_graph' = data_graph
             /\ current_iteration' = current_iteration
             /\ pc' = "restore"))
        /\ ((pc = "loop" /\ current_iteration' = current_iteration + 1) =>
            ~(/\ early_isomorphic_exit
              /\ previous_inferred_graph # NoGraph
              /\ isomorphic(inferred_graph', previous_inferred_graph))) ]_vars
\* the loop was left by the break on an output that is isomorphic to the
\* previous one without being the same triple set
C18_Witness ==
    /\ loop_exit = "break"
    /\ inferred_graph # previous_inferred_graph
    /\ inferred_graph # {}
    /\ current_iteration < max_iterations

\* the exception holds every marker line of the engine's stdout and its
\* stderr text
HasLineOfText(t, line) ==
    \E j \in 1..Len(splitlines(t)) : splitlines(t)[j] = line
ContainsDoubleColon(line) ==
    \E k \in 1..(Len(line) - 1) : <<line[k], line[k + 1]>> = <<":", ":">>
CarriesDiagnostics(e, raw) ==
    /\ \A i \in 1..Len(splitlines(raw.stdout)) :
          ContainsDoubleColon(splitlines(raw.stdout)[i]) =>
             HasLineOfText(e.text, splitlines(raw.stdout)[i])
    /\ raw.stderr # <<>> => HasLineOfText(e.text, raw.stderr)

\* C14: when a call fails because engine output did not parse, the failure
\* surfaced to the caller carries the engine's raw diagnostic text.
C14_FailureCarriesDiagnostics ==
    error = "ParseFailure" => CarriesDiagnostics(error_text, raw_output)

(* ====================== properties: engine inputs ====================== *)
\* C19: every graph handed to the engine, at every inference pass and at the
\* validation call, holds no owl:imports triple, whatever the input graphs
\* and the earlier engine outputs are.
C19_EngineSeesNoImports ==
    engine_input # NoGraph => ImportsOf(engine_input) = {}

(* =================== properties: skolemization round trip ============== *)
\* no pass has merged a triple: the working graph is the skolemized input
NothingInferred ==
    /\ RemoveImports(data_graph) = skolemize(RemoveImports(arg_data))
    /\ ImportsOf(data_graph) \subseteq ImportsOf(arg_data)
SkolemTermsOf(g) == {t[1] : t \in {x \in g : x[1].k = "genid"}}
                      \cup {t[3] : t \in {x \in g : x[3].k = "genid"}}

\* C12: when the engine infers nothing on every pass, the graph infer
\* returns is isomorphic to the input data graph: its blank nodes are blank
\* nodes again and no skolem IRI that infer introduced remains.
C12_RoundTrip ==
    (returned # NoGraph /\ NothingInferred) =>
        /\ isomorphic(returned, arg_data)
        /\ SkolemTermsOf(returned) = {}
        /\ BNodesOf(returned) = BNodesOf(arg_data)

(* ==================== properties: the pyshacl variant ================== *)
\* C16: in the pyshacl variant, after a normal return of infer or validate
\* the data graph holds the import triples it had before the call, and the
\* ontology/shape graph holds the same import triples as before the call.
C16_PyshaclImportsRestored ==
    Returned =>
        /\ ImportsOf(arg_data) \subseteq ImportsOf(caller_data)
        /\ ImportsOfOptional(caller_ont) = ImportsOfOptional(arg_ont)

(* ======================= properties: repeated call ===================== *)
\* C13: for an engine that is a function of its input triple set, if a run
\* of infer ended because a pass left the graph size unchanged, then infer on
\* the returned graph with the same ontology returns the same triple set.
C13_RerunAddsNothing ==
    (Returned /\ first_run # <<>>) => returned = first_run[1].returned

(* =============== properties: scratch directory, caller's graph ========= *)
\* control is back at the caller
BackAtCaller == pc = "done" \/ pc = "failed"

\* C23: the scratch directory of a call of infer or validate exists only
\* during the call: on every exit path, a parse failure inside the loop
\* included, it has been removed when control returns to the caller.
C23_ScratchRemoved ==
    /\ BackAtCaller => temp_dirs = {}
    /\ pc = "loop" => temp_dirs = {"infer"}
\* a call left by a parse failure after a pass that had used the directory
C23_Witness ==
    /\ Failed
    /\ engine_calls >= 2
    /\ validate_calls = 0
    /\ temp_dirs = {}

\* C24: infer never adds a triple to the graph object the caller passed as
\* data_graph: after any call the caller's object holds a subset of the
\* triples it held before, and the inferred triples are in the returned
\* graph only.
C24_CallerGraphGetsNoTriple ==
    caller_data \subseteq arg_data
\* infer returned a graph with inferred triples
C24_Witness ==
    /\ Returned
    /\ call = "infer"
    /\ returned \cap EngineTriples(1) # {}
    /\ caller_data \cap EngineTriples(1) = {}

(* ===================== properties: result blocks ======================= *)
\* the lines of block i of a report text
BlockLines(t, i) == {j \in 1..Len(t) : t[j].block = i /\ t[j].kind # "Validation Results"}
BlockCount(t) ==
    Cardinality({j \in 1..Len(t) : t[j].kind = "--- Result ---"})
\* block i shows the property under the label iff the result carries it
ShowsIffCarried(t, i, kind, val) ==
    IF val = "none"
       THEN \A j \in BlockLines(t, i) : t[j].kind # kind
       ELSE \E j \in BlockLines(t, i) : t[j].kind = kind /\ t[j].val = val

\* C21: for a report that does not conform the text has exactly one block per
\* result of the report node, and each block lists every one of severity,
\* focus node, message, path, value, source constraint and source shape the
\* result carries and omits exactly those it does not carry; for a
\* conforming report it has no result block.
C21_BlocksListCarriedFields ==
    Validated =>
        LET results == ReportResults(report)
        IN  IF report.conforms = "true"
               THEN BlockCount(text) = 0
               ELSE /\ BlockCount(text) = Len(results)
                    /\ \A i \in 1..Len(results) :
                          /\ ShowsIffCarried(text, i, "Severity", results[i].severity)
                          /\ ShowsIffCarried(text, i, "Focus Node", results[i].focusNode)
                          /\ ShowsIffCarried(text, i, "Message", results[i].message)
                          /\ ShowsIffCarried(text, i, "Path", results[i].path)
                          /\ ShowsIffCarried(text, i, "Value", results[i].value)
                          /\ ShowsIffCarried(text, i, "Source Constraint",
                                             results[i].sourceConstraintComponent)
                          /\ ShowsIffCarried(text, i, "Source Shape",
                                             results[i].sourceShape)

(* ===================== properties: clean_stdout ======================== *)
\* the lines of the input text that do not contain "::", in order
KeptLines(t) ==
    SelectSeq(splitlines(t), LAMBDA line : ~ContainsDoubleColon(line))
\* a sequence of lines without its last line when that line is empty
WithoutEmptyLastLine(lines) ==
    IF lines # <<>> /\ lines[Len(lines)] = <<>>
       THEN SubSeq(lines, 1, Len(lines) - 1)
       ELSE lines

\* C22 as stated: clean_stdout returns exactly the input lines that do not
\* contain "::", in their original order, for every input text, and applying
\* it twice gives the same result as applying it once.
C22_CleanStdoutIdempotent ==
    /\ Len(cleaned) >= 1 => cleaned[1] = Join(KeptLines(raw_output.stdout))
    /\ Len(cleaned) = 2 => cleaned[2] = cleaned[1]
\* C22 as amended: clean_stdout returns the input lines (as str.splitlines
\* separates them) that do not contain "::", in their original order, joined
\* by "\n" with no line break after the last one, so that an empty last line
\* is not a line of the result; applying it twice gives what applying it once
\* gives whenever the last kept line is not empty, and gives the kept lines
\* without that empty last line otherwise.
C22_CleanStdout ==
    LET kept == KeptLines(raw_output.stdout)
    IN  /\ Len(cleaned) >= 1 =>
              /\ splitlines(cleaned[1]) = WithoutEmptyLastLine(kept)
              /\ Len(cleaned[1]) = 0 \/ cleaned[1][Len(cleaned[1])] # CR
              /\ (kept # <<>> /\ kept[Len(kept)] = <<>> /\ Len(kept) >= 2) =>
                    cleaned[1][Len(cleaned[1])] = LF
        /\ Len(cleaned) = 2 =>
              /\ splitlines(cleaned[2]) =
                    WithoutEmptyLastLine(WithoutEmptyLastLine(kept))
              /\ (kept = <<>> \/ kept[Len(kept)] # <<>>) =>
                    cleaned[2] = cleaned[1]
\* a text with a marker line, a kept line and a line break at its end has
\* been cleaned twice
C22_Witness ==
    /\ Len(cleaned) = 2
    /\ \E i \in 1..Len(splitlines(raw_output.stdout)) :
          ContainsDoubleColon(splitlines(raw_output.stdout)[i])
    /\ cleaned[1] # <<>>
    /\ cleaned[2] = cleaned[1]
    /\ cleaned[1] # raw_output.stdout

(* ================ properties: the topquadrant_shacl variant ============ *)
\* C25: the topquadrant_shacl variant of infer invokes the engine at least
\* once for every data graph, an empty one included, stops after the first
\* pass that leaves the size of the data graph unchanged, and never makes
\* more than 10 passes.
C25_TopquadrantLoop ==
    /\ Returned => engine_calls >= 1
    /\ engine_calls <= MAX_EXTERNAL_LOOPS
    /\ (pc = "loop" /\ current_iteration >= 1 /\ ~data_graph_size_changed) =>
          ~ENABLED TqInferPass

====
